---- MODULE Spec2Model ----
(***************************************************************************)
(* Shar's branch-light binary search (shar_search, src/src/lib.rs).        *)
(*                                                                         *)
(* One call of <[T] as SharBinarySearch<T>>::bl_binary_search_by is        *)
(* modelled as a state machine whose program counter walks the function    *)
(* body.  The slice is represented by its length N and the comparator by   *)
(* the verdicts it gives: f[i] is the verdict of its latest call on the    *)
(* element at index i.  The comparator is an FnMut: a pure one answers the *)
(* same for the same element every time, a stateful one may answer         *)
(* anything on any call.  usize is W bits wide.                            *)
(***************************************************************************)
EXTENDS Integers, Sequences, FiniteSets

\* Word width of usize in the model (usize::BITS); slices have every length
\* a usize can hold.
W == 4

RECURSIVE Pow2(_)
Pow2(k) == IF k <= 0 THEN 1 ELSE 2 * Pow2(k - 1)

Modulus == Pow2(W)
UsizeMax == Modulus - 1

Ordering == {"Less", "Equal", "Greater"}
\* Verdict of an index of the comparator that has not been observed yet.
Unset == "Unset"

VARIABLES
    N,        \* self.len()
    f,        \* the comparator: latest verdict per index
    pure,     \* the comparator is a function of the element
    pc,       \* position in bl_binary_search_by
    length,   \* let mut length
    left,     \* let mut left
    right,    \* let right
    step,     \* let mut step
    result,   \* the returned Result<usize, usize>
    retsite,  \* which return expression produced result
    probes,   \* history: the comparator invocations, in order
    bf_args,  \* history: the arguments bit_floor was called with
    wrapped,  \* history: some usize operation left [0, UsizeMax]
    corrected,\* history: the seeding correction branch was entered
    iters     \* history: executions of the descent loop body

vars == <<N, f, pure, pc, length, left, right, step, result, retsite,
          probes, bf_args, wrapped, corrected, iters>>

----------------------------------------------------------------------------
\* usize arithmetic: Fits tells whether a mathematical value is a usize,
\* Wrap reduces it to one (a release build wraps, a debug build panics).

Fits(x) == x >= 0 /\ x <= UsizeMax

Wrap(x) == (x + Modulus * Modulus) % Modulus

RECURSIVE BitWidth(_)
BitWidth(n) == IF n <= 0 THEN 0 ELSE 1 + BitWidth(n \div 2)

leading_zeros(n) == W - BitWidth(n)

\* The shift amount usize::BITS - length.leading_zeros() - 1.
bit_floor_shift_off(n) == W - leading_zeros(n)

bit_floor_shift(n) == W - leading_zeros(n) - 1

bit_floor_fits(n) == bit_floor_shift(n) >= 0 /\ bit_floor_shift(n) < W

\* 1_usize << shift.  A shift amount outside [0, W) (length = 0 makes the
\* u32 subtraction underflow) is reduced to the word width.
bit_floor(n) ==
    IF bit_floor_fits(n)
    THEN Pow2(bit_floor_shift(n))
    ELSE Pow2((bit_floor_shift(n) + W) % W)

\* usize::next_power_of_two: the smallest power of two >= n, as a
\* mathematical value (the caller reduces it to a usize).
next_power_of_two_down(n) == IF n <= 1 THEN 1 ELSE Pow2(BitWidth(n) - 1)

next_power_of_two(n) == IF n <= 1 THEN 1 ELSE Pow2(BitWidth(n - 1))

is_le(o) == o \in {"Less", "Equal"}

is_lt(o) == o = "Less"

Ok(i) == [tag |-> "Ok", idx |-> i]

Err(i) == [tag |-> "Err", idx |-> i]

NoResult == [tag |-> "None", idx |-> 0]

----------------------------------------------------------------------------
\* The comparator applied to self.get_unchecked(i).  A pure comparator
\* repeats the verdict it gave for an index of the slice before (the verdict
\* is fixed the first time it is observed); a stateful FnMut may give any
\* verdict on any call; an index outside the slice reads memory that is not
\* part of the slice, so any verdict can come back.
Probe(i) ==
    IF pure /\ i \in DOMAIN f /\ f[i] # Unset
    THEN {f[i]}
    ELSE Ordering

Observe(i, v) == IF i \in DOMAIN f THEN [f EXCEPT ![i] = v] ELSE f

Call(site, i, v) == Append(probes, [site |-> site, idx |-> i, verdict |-> v])

----------------------------------------------------------------------------
Locals0 ==
    /\ pc = "start"
    /\ length = 0 /\ left = 0 /\ right = 0 /\ step = 0
    /\ result = NoResult
    /\ retsite = "none"
    /\ probes = << >>
    /\ bf_args = << >>
    /\ wrapped = FALSE
    /\ corrected = FALSE
    /\ iters = 0

\* A slice of any length and a comparator about which nothing is assumed,
\* pure or stateful.
Init ==
    /\ N \in 0..UsizeMax
    /\ pure \in BOOLEAN
    /\ f = [i \in 0..(N - 1) |-> Unset]
    /\ Locals0

\* A sorted slice and a target: the verdicts are a run of Less (below index
\* a), then a run of Equal (below index b), then a run of Greater.
SortedVerdicts(n, a, b) ==
    [i \in 0..(n - 1) |->
        IF i < a THEN "Less" ELSE IF i < b THEN "Equal" ELSE "Greater"]

InitSorted ==
    /\ N \in 0..UsizeMax
    /\ pure = TRUE
    /\ \E a \in 0..N : \E b \in a..N : f = SortedVerdicts(N, a, b)
    /\ Locals0

----------------------------------------------------------------------------
\* if self.is_empty() { return Err(0); }
EmptyCheckSkipped ==
    /\ pc = "start"
    /\ pc' = "setup"
    /\ UNCHANGED <<N, pure, f, length, left, right, step, result, retsite,
                   probes, bf_args, wrapped, corrected, iters>>

EmptyCheck ==
    /\ pc = "start"
    /\ IF N = 0
       THEN /\ result' = Err(0)
            /\ retsite' = "empty"
            /\ pc' = "done"
       ELSE /\ pc' = "setup"
            /\ UNCHANGED <<result, retsite>>
    /\ UNCHANGED <<N, pure, f, length, left, right, step,
                   probes, bf_args, wrapped, corrected, iters>>

\* let mut length = self.len(); let mut left = 0; let right = length;
\* let mut step = bit_floor(length);
Setup ==
    /\ pc = "setup"
    /\ length' = N
    /\ left' = 0
    /\ right' = N
    /\ step' = Wrap(bit_floor(N))
    /\ bf_args' = Append(bf_args, N)
    /\ wrapped' = (wrapped \/ ~bit_floor_fits(N) \/ ~Fits(bit_floor(N)))
    /\ pc' = "seed"
    /\ UNCHANGED <<N, pure, f, result, retsite, probes, corrected, iters>>

\* if step != length && f(get_unchecked(step)).is_lt() {
\*     length -= step + 1;
\*     if length == 0 { return Err(right); }
\*     step = length.next_power_of_two();
\*     left = right - step;
\* }
SeedEarlyLength ==
    /\ pc = "seed"
    /\ IF step # length
       THEN \E v \in Probe(step) :
              /\ probes' = Call("seed", step, v)
              /\ f' = Observe(step, v)
              /\ IF is_lt(v)
                 THEN LET s1 == step + 1
                          len1 == length - Wrap(s1)
                          np == next_power_of_two(Wrap(len1))
                          nleft == right - Wrap(np)
                      IN /\ corrected' = TRUE
                         /\ length' = Wrap(len1)
                         /\ IF Wrap(len1) = 0
                            THEN /\ result' = Err(Wrap(len1))
                                 /\ retsite' = "early"
                                 /\ pc' = "done"
                                 /\ wrapped' = (wrapped \/ ~Fits(s1)
                                                \/ ~Fits(len1))
                                 /\ UNCHANGED <<step, left>>
                            ELSE /\ step' = Wrap(np)
                                 /\ left' = Wrap(nleft)
                                 /\ wrapped' = (wrapped \/ ~Fits(s1)
                                                \/ ~Fits(len1) \/ ~Fits(np)
                                                \/ ~Fits(nleft))
                                 /\ pc' = "loop"
                                 /\ UNCHANGED <<result, retsite>>
                 ELSE /\ pc' = "loop"
                      /\ UNCHANGED <<length, step, left, result, retsite,
                                     wrapped, corrected>>
       ELSE /\ pc' = "loop"
            /\ UNCHANGED <<f, probes, length, step, left, result, retsite,
                           wrapped, corrected>>
    /\ UNCHANGED <<N, pure, right, bf_args, iters>>

Seed ==
    /\ pc = "seed"
    /\ IF step # length
       THEN \E v \in Probe(step) :
              /\ probes' = Call("seed", step, v)
              /\ f' = Observe(step, v)
              /\ IF is_lt(v)
                 THEN LET s1 == step + 1
                          len1 == length - Wrap(s1)
                          np == next_power_of_two(Wrap(len1))
                          nleft == right - Wrap(np)
                      IN /\ corrected' = TRUE
                         /\ length' = Wrap(len1)
                         /\ IF Wrap(len1) = 0
                            THEN /\ result' = Err(right)
                                 /\ retsite' = "early"
                                 /\ pc' = "done"
                                 /\ wrapped' = (wrapped \/ ~Fits(s1)
                                                \/ ~Fits(len1))
                                 /\ UNCHANGED <<step, left>>
                            ELSE /\ step' = Wrap(np)
                                 /\ left' = Wrap(nleft)
                                 /\ wrapped' = (wrapped \/ ~Fits(s1)
                                                \/ ~Fits(len1) \/ ~Fits(np)
                                                \/ ~Fits(nleft))
                                 /\ pc' = "loop"
                                 /\ UNCHANGED <<result, retsite>>
                 ELSE /\ pc' = "loop"
                      /\ UNCHANGED <<length, step, left, result, retsite,
                                     wrapped, corrected>>
       ELSE /\ pc' = "loop"
            /\ UNCHANGED <<f, probes, length, step, left, result, retsite,
                           wrapped, corrected>>
    /\ UNCHANGED <<N, pure, right, bf_args, iters>>

\* loop { step /= 2;
\*        if step == 0 { break; }
\*        else if f(get_unchecked(left + step)).is_lt() { left += step; } }
DescendEarlyExit ==
    /\ pc = "loop"
    /\ step' = step \div 2
    /\ iters' = iters + 1
    /\ IF step \div 2 = 0
       THEN /\ pc' = "resolve"
            /\ UNCHANGED <<f, probes, left, wrapped>>
       ELSE \E v \in Probe(Wrap(left + step \div 2)) :
              /\ probes' = Call("descent", Wrap(left + step \div 2), v)
              /\ f' = Observe(Wrap(left + step \div 2), v)
              /\ wrapped' = (wrapped \/ ~Fits(left + step \div 2))
              /\ left' = (IF is_le(v) THEN Wrap(left + step \div 2) ELSE left)
              /\ pc' = (IF v = "Equal" THEN "resolve" ELSE "loop")
    /\ UNCHANGED <<N, pure, length, right, result, retsite, bf_args, corrected>>

DescendHalveLast ==
    /\ pc = "loop"
    /\ iters' = iters + 1
    /\ IF step = 0
       THEN /\ pc' = "resolve"
            /\ UNCHANGED <<f, probes, left, step, wrapped>>
       ELSE \E v \in Probe(Wrap(left + step)) :
              /\ probes' = Call("descent", Wrap(left + step), v)
              /\ f' = Observe(Wrap(left + step), v)
              /\ wrapped' = (wrapped \/ ~Fits(left + step))
              /\ left' = (IF is_lt(v) THEN Wrap(left + step) ELSE left)
              /\ step' = step \div 2
              /\ pc' = "loop"
    /\ UNCHANGED <<N, pure, length, right, result, retsite, bf_args, corrected>>

Descend ==
    /\ pc = "loop"
    /\ step' = step \div 2
    /\ iters' = iters + 1
    /\ IF step \div 2 = 0
       THEN /\ pc' = "resolve"
            /\ UNCHANGED <<f, probes, left, wrapped>>
       ELSE \E v \in Probe(Wrap(left + step \div 2)) :
              /\ probes' = Call("descent", Wrap(left + step \div 2), v)
              /\ f' = Observe(Wrap(left + step \div 2), v)
              /\ wrapped' = (wrapped \/ ~Fits(left + step \div 2))
              /\ left' = (IF is_lt(v) THEN Wrap(left + step \div 2) ELSE left)
              /\ pc' = "loop"
    /\ UNCHANGED <<N, pure, length, right, result, retsite, bf_args, corrected>>

\* left + 1 >= self.len()
PastEndStrict(i) == i > N

PastEnd(i) == i >= N

\* match f(get_unchecked(left)) {
\*     Less => if left + 1 >= self.len() { Err(left + 1) } else { .. },
\*     Equal => Ok(left),
\*     Greater => Err(left) }
ResolveGreaterOff ==
    /\ pc = "resolve"
    /\ \E v \in Probe(left) :
         /\ probes' = Call("left", left, v)
         /\ f' = Observe(left, v)
         /\ CASE v = "Less" ->
                   /\ wrapped' = (wrapped \/ ~Fits(left + 1))
                   /\ IF PastEnd(Wrap(left + 1))
                      THEN /\ result' = Err(Wrap(left + 1))
                           /\ retsite' = "end"
                           /\ pc' = "done"
                      ELSE /\ pc' = "next"
                           /\ UNCHANGED <<result, retsite>>
              [] v = "Equal" ->
                   /\ result' = Ok(left)
                   /\ retsite' = "found_left"
                   /\ pc' = "done"
                   /\ UNCHANGED wrapped
              [] v = "Greater" ->
                   /\ result' = Err(Wrap(left + 1))
                   /\ retsite' = "greater_left"
                   /\ pc' = "done"
                   /\ UNCHANGED wrapped
    /\ UNCHANGED <<N, pure, length, left, right, step, bf_args, corrected, iters>>

Resolve ==
    /\ pc = "resolve"
    /\ \E v \in Probe(left) :
         /\ probes' = Call("left", left, v)
         /\ f' = Observe(left, v)
         /\ CASE v = "Less" ->
                   /\ wrapped' = (wrapped \/ ~Fits(left + 1))
                   /\ IF PastEnd(Wrap(left + 1))
                      THEN /\ result' = Err(Wrap(left + 1))
                           /\ retsite' = "end"
                           /\ pc' = "done"
                      ELSE /\ pc' = "next"
                           /\ UNCHANGED <<result, retsite>>
              [] v = "Equal" ->
                   /\ result' = Ok(left)
                   /\ retsite' = "found_left"
                   /\ pc' = "done"
                   /\ UNCHANGED wrapped
              [] v = "Greater" ->
                   /\ result' = Err(left)
                   /\ retsite' = "greater_left"
                   /\ pc' = "done"
                   /\ UNCHANGED wrapped
    /\ UNCHANGED <<N, pure, length, left, right, step, bf_args, corrected, iters>>

\* match f(get_unchecked(left + 1)) {
\*     Less => Err(left + 1), Equal => Ok(left + 1), Greater => Err(left + 1) }
ResolveNextArmsSwapped ==
    /\ pc = "next"
    /\ \E v \in Probe(Wrap(left + 1)) :
         /\ probes' = Call("next", Wrap(left + 1), v)
         /\ f' = Observe(Wrap(left + 1), v)
         /\ result' = (CASE v = "Less" -> Err(Wrap(left + 1))
                         [] v = "Equal" -> Err(Wrap(left + 1))
                         [] v = "Greater" -> Ok(Wrap(left + 1)))
         /\ retsite' = (CASE v = "Less" -> "next_less"
                          [] v = "Equal" -> "found_next"
                          [] v = "Greater" -> "next_greater")
    /\ wrapped' = (wrapped \/ ~Fits(left + 1))
    /\ pc' = "done"
    /\ UNCHANGED <<N, pure, length, left, right, step, bf_args, corrected, iters>>

ResolveNext ==
    /\ pc = "next"
    /\ \E v \in Probe(Wrap(left + 1)) :
         /\ probes' = Call("next", Wrap(left + 1), v)
         /\ f' = Observe(Wrap(left + 1), v)
         /\ result' = (CASE v = "Less" -> Err(Wrap(left + 1))
                         [] v = "Equal" -> Ok(Wrap(left + 1))
                         [] v = "Greater" -> Err(Wrap(left + 1)))
         /\ retsite' = (CASE v = "Less" -> "next_less"
                          [] v = "Equal" -> "found_next"
                          [] v = "Greater" -> "next_greater")
    /\ wrapped' = (wrapped \/ ~Fits(left + 1))
    /\ pc' = "done"
    /\ UNCHANGED <<N, pure, length, left, right, step, bf_args, corrected, iters>>

Next ==
    \/ EmptyCheck
    \/ Setup
    \/ Seed
    \/ Descend
    \/ Resolve
    \/ ResolveNext

Spec == Init /\ [][Next]_vars

\* The call is straight-line code on one thread: once entered it runs until
\* it returns.
FairSpec == Spec /\ WF_vars(Next)

SortedSpec == InitSorted /\ [][Next]_vars

----------------------------------------------------------------------------
\* Vocabulary of the properties.

Done == pc = "done"

\* The call went through the descent loop (it did not return before it).
PastLoop == pc \in {"resolve", "next"} \/ (Done /\ retsite \notin {"empty", "early"})

\* A run of Less, then a run of Equal, then a run of Greater.
Rank(o) == CASE o = "Less" -> 0 [] o = "Equal" -> 1 [] OTHER -> 2

Monotone ==
    \A i \in DOMAIN f : \A j \in DOMAIN f : i <= j => Rank(f[i]) <= Rank(f[j])

EqualIndices == {i \in DOMAIN f : f[i] = "Equal"}

LessIndices == {i \in DOMAIN f : f[i] = "Less"}

Leftmost(S) == CHOOSE i \in S : \A j \in S : i <= j

\* Every verdict the comparator gave during the call was v.
ConstantSoFar(v) == \A k \in 1..Len(probes) : probes[k].verdict = v

RECURSIVE FloorLog2(_)
FloorLog2(n) == IF n <= 1 THEN 0 ELSE 1 + FloorLog2(n \div 2)

CeilLog2(n) == IF n <= 1 THEN 0 ELSE 1 + FloorLog2(n - 1)

ProbesAt(site) == {k \in 1..Len(probes) : probes[k].site = site}

Sites == {probes[k].site : k \in 1..Len(probes)}

----------------------------------------------------------------------------
\* C1 (SortedSpec).  Leftmost match: on a slice of length N >= 1 with monotone
\* verdicts of which at least one is Equal, the search returns Ok(i) for the
\* smallest index i whose verdict is Equal.
C1_LeftmostMatch ==
    (Done /\ N >= 1 /\ Monotone /\ EqualIndices # {})
        => result = Ok(Leftmost(EqualIndices))

\* A run of three or more Equal verdicts that starts after index 0, found
\* after the seeding correction.
C1_Witness ==
    /\ Done /\ Monotone /\ corrected
    /\ Cardinality(EqualIndices) >= 3
    /\ result.tag = "Ok" /\ result.idx > 0
    /\ result.idx = Leftmost(EqualIndices)

\* C2 (SortedSpec).  Insertion point: with monotone verdicts, whenever the
\* search returns Err(i), every index below i compares Less and, if i < N,
\* index i compares Greater.
C2_InsertionPoint ==
    (Done /\ Monotone /\ result.tag = "Err")
        => /\ result.idx \in 0..N
           /\ \A j \in 0..(result.idx - 1) : f[j] = "Less"
           /\ result.idx < N => f[result.idx] = "Greater"

\* An insertion point strictly inside the slice, between Less and Greater.
C2_Witness ==
    /\ Done /\ Monotone /\ result.tag = "Err"
    /\ result.idx > 0 /\ result.idx < N
    /\ f[result.idx - 1] = "Less" /\ f[result.idx] = "Greater"
    /\ corrected

\* C3 (Spec).  For every pure comparator, monotone or not, the search
\* returns either Ok(i) with i < N and verdict Equal at i, or Err(i) with
\* 0 <= i <= N.
C3_ResultInRange ==
    (Done /\ pure) => \/ /\ result.tag = "Ok"
                          /\ result.idx \in 0..(N - 1)
                          /\ f[result.idx] = "Equal"
                       \/ /\ result.tag = "Err"
                          /\ result.idx \in 0..N

\* Verdicts of a pure comparator that are not monotone (Greater was seen
\* below an index that compares Equal), on which the search reports an
\* insertion point although an Equal index exists.
C3_Witness ==
    /\ Done /\ pure /\ result.tag = "Err"
    /\ \E i \in DOMAIN f : \E j \in DOMAIN f :
          i < j /\ f[i] = "Greater" /\ f[j] = "Equal"
    /\ result.idx \in 0..N

\* C4 (Spec).  Access bounds: for N >= 1 and every comparator, every index
\* handed to the comparator (seeding probe, descent probes, the two boundary
\* probes) lies in [0, N).
C4_AccessInBounds ==
    N >= 1 => \A k \in 1..Len(probes) : probes[k].idx \in 0..(N - 1)

\* A call that probed at all four sites, the last one at index N - 1.
C4_Witness ==
    /\ Done
    /\ Sites = {"seed", "descent", "left", "next"}
    /\ probes[Len(probes)].idx = N - 1

\* C5 (Spec).  Maximum length: with N = usize::MAX no usize operation of the
\* search leaves [0, usize::MAX], for any comparator; the constant
\* comparators give Ok(0) (Equal), Err(0) (Greater) and Err(N) (Less).
C5_MaxLength ==
    N = UsizeMax =>
        /\ ~wrapped
        /\ (Done /\ ConstantSoFar("Equal")) => result = Ok(0)
        /\ (Done /\ ConstantSoFar("Greater")) => result = Err(0)
        /\ (Done /\ ConstantSoFar("Less")) => result = Err(N)

\* The always-Less comparator on the slice of maximal length, which takes the
\* seeding correction and every addition of the descent.
C5_Witness ==
    /\ N = UsizeMax /\ Done /\ ConstantSoFar("Less")
    /\ corrected /\ Cardinality(ProbesAt("descent")) >= 2
    /\ result = Err(UsizeMax)

\* C6 (SortedSpec).  When the comparator reports Less at every index of a
\* slice of length N >= 1, the search returns Err(N), through the early
\* return of the seeding correction or through the boundary resolution with
\* left + 1 >= N.
C6_GreaterThanAll ==
    (Done /\ N >= 1 /\ LessIndices = DOMAIN f)
        => /\ result = Err(N)
           /\ \/ retsite = "early"
              \/ retsite = "end" /\ left + 1 >= N

\* The early return: the narrowed length became zero.
C6_Witness ==
    /\ Done /\ N >= 3 /\ LessIndices = DOMAIN f
    /\ retsite = "early" /\ length = 0
    /\ result = Err(N)

\* C7 (Spec).  For a slice of length 0 the search returns Err(0) without
\* evaluating bit_floor and without invoking the comparator; bit_floor is
\* never called with 0.
C7_Empty ==
    /\ N = 0 => /\ pc \in {"start", "done"}
                /\ Done => result = Err(0)
                /\ bf_args = << >>
                /\ probes = << >>
    /\ \A k \in 1..Len(bf_args) : bf_args[k] # 0

C7_Witness == N = 0 /\ Done /\ result = Err(0) /\ retsite = "empty"

\* C8 (FairSpec).  Termination and probe bound: the call returns; past the
\* descent loop step is 0 and the loop made at most ceil(log2(length))
\* probes, length being N without the seeding correction and
\* N - bit_floor(N) - 1 with it; the whole call invokes the comparator at
\* most floor(log2(N)) + 3 times.
C8_Bound ==
    /\ N >= 1 => Len(probes) <= FloorLog2(N) + 3
    /\ (pc = "loop" \/ PastLoop) =>
          /\ length = (IF corrected THEN N - bit_floor(N) - 1 ELSE N)
          /\ Cardinality(ProbesAt("descent")) <= CeilLog2(length)
    /\ PastLoop => step = 0

C8_Termination == []C8_Bound /\ <>Done

\* A call that meets both bounds exactly.
C8_Witness ==
    /\ Done /\ N >= 4
    /\ Len(probes) = FloorLog2(N) + 3
    /\ Cardinality(ProbesAt("descent")) = CeilLog2(length)

\* C9 (Spec).  No early exit on found: the number of executions of the
\* descent loop body is fixed by N and by whether the seeding probe said
\* Less, whatever the comparator; a descent step changes left only on a Less
\* verdict (to left + step), and leaves the loop only when step reaches 0.
DescentIters ==
    1 + FloorLog2(IF corrected
                  THEN next_power_of_two(N - bit_floor(N) - 1)
                  ELSE bit_floor(N))

C9_IterCount == PastLoop => iters = DescentIters

C9_DescentStep ==
    pc = "loop" =>
        /\ pc' = (IF step' = 0 THEN "resolve" ELSE "loop")
        /\ left' # left =>
              /\ Len(probes') = Len(probes) + 1
              /\ probes'[Len(probes')].verdict = "Less"
              /\ left' = left + step'
        /\ (Len(probes') = Len(probes) + 1
              /\ probes'[Len(probes')].verdict = "Equal") => left' = left

C9_NoEarlyExit == []C9_IterCount /\ [][C9_DescentStep]_vars

\* The loop saw Equal at a probe and went on to probe again.
C9_Witness ==
    /\ PastLoop
    /\ \E k \in ProbesAt("descent") :
          /\ probes[k].verdict = "Equal"
          /\ k + 1 \in ProbesAt("descent")
    /\ iters = DescentIters /\ iters >= 3

\* C10 (SortedSpec).  The seeding re-anchor leaves no gap: right after a
\* seeding correction with non-zero narrowed length, step is
\* next_power_of_two(N - s - 1) <= s for s = bit_floor(N), left = N - step did
\* not underflow, 1 <= left <= s + 1, and index left - 1 compares Less.
AfterReanchor == pc = "loop" /\ corrected /\ iters = 0

C10_Reanchor ==
    AfterReanchor =>
        LET s == bit_floor(N)
        IN /\ s # N /\ N > s + 1 /\ f[s] = "Less"
           /\ length = N - s - 1
           /\ step >= length /\ step < 2 * length /\ step <= s
           /\ step \in {Pow2(k) : k \in 0..W}
           /\ ~wrapped
           /\ left = N - step
           /\ 1 <= left /\ left <= s + 1
           /\ f[left - 1] = "Less"

\* A re-anchored window that starts strictly before the seeding probe.
C10_Witness ==
    /\ AfterReanchor
    /\ left < bit_floor(N)
    /\ f[left] = "Less"

====
